---- MODULE Spec2Model ----
(***************************************************************************)
(* Model of person_sensor.py: the PersonSensor driver's get_faces method   *)
(* (rate limiter on time.ticks_ms plus the struct-based frame decoder).    *)
(*                                                                         *)
(* Time is in milliseconds.  Statements of get_faces take no time; time    *)
(* passes between calls (Elapse) and inside time.sleep, which sleeps       *)
(* exactly the requested duration.  time.ticks_ms() is a wrapping counter  *)
(* with period TICKS_PERIOD; last_read, now, delta and delay are Python    *)
(* integers (no wrap), computed exactly as the code computes them.         *)
(***************************************************************************)
EXTENDS Integers, Sequences, FiniteSets, TLC

\* ---------------------------------------------------------------- bounds
MaxCalls == 2        \* get_faces calls explored per behaviour
MaxGap == 1000       \* the longest idle gap between two calls, ms
Cap == 2000          \* elapsed-time observers saturate here ("Cap or more")

\* ------------------------------------------------------------- constants
PERSON_SENSOR_I2C_HEADER_BYTE_COUNT == 4     \* struct.calcsize("BBH")
PERSON_SENSOR_FACE_BYTE_COUNT == 8           \* struct.calcsize("BBBBBBbB")
PERSON_SENSOR_FACE_MAX == 4
\* struct.calcsize("BBH" + "B" + "BBBBBBbB" * 4 + "H"), native alignment:
\* 4 + 1 + 32 = 37, one pad byte aligns the final H to 38, plus 2.
PERSON_SENSOR_RESULT_BYTE_COUNT == 40
PERSON_SENSOR_DELAY == 200
\* period of the time.ticks_ms() counter (MicroPython: TICKS_MAX + 1)
TICKS_PERIOD == 2^30

Min(a, b) == IF a < b THEN a ELSE b

\* -------------------------------------------------------------- decoding
\* buffers are 0-indexed in the code, sequences 1-indexed here
ByteAt(buf, offset) == buf[offset + 1]

\* struct format "B": the byte as an unsigned value
UnpackB(b) == b

\* struct format "b": the byte as a signed 8-bit value
UnpackSignedB_unsigned(b) == b

UnpackSignedB(b) == IF b >= 128 THEN b - 256 ELSE b

\* struct format "H" (native order, little-endian on the supported boards)
UnpackH(buf, offset) == ByteAt(buf, offset) + 256 * ByteAt(buf, offset + 1)

\* struct.unpack_from raises when the buffer has fewer than size bytes
\* left at offset
unpack_from_fits(buf, offset, size) == offset + size <= Len(buf)

\* PersonSensorFace(*struct.unpack_from("BBBBBBbB", buffer, offset))
PersonSensorFace(buf, offset) ==
    [ box_confidence |-> UnpackB(ByteAt(buf, offset)),
      box_left       |-> UnpackB(ByteAt(buf, offset + 1)),
      box_top        |-> UnpackB(ByteAt(buf, offset + 2)),
      box_right      |-> UnpackB(ByteAt(buf, offset + 3)),
      box_bottom     |-> UnpackB(ByteAt(buf, offset + 4)),
      id_confidence  |-> UnpackB(ByteAt(buf, offset + 5)),
      id             |-> UnpackSignedB(ByteAt(buf, offset + 6)),
      is_facing      |-> UnpackB(ByteAt(buf, offset + 7)) ]

\* the for loop of get_faces: n iterations left, running offset, the faces
\* appended so far and the buffer offsets read so far
RECURSIVE UnpackFaces_clamped(_, _, _, _, _)
UnpackFaces_clamped(buf, n, offset, faces, reads) ==
    IF n = 0 \/ Len(faces) = PERSON_SENSOR_FACE_MAX
    THEN [ok |-> TRUE, faces |-> faces, offset |-> offset, reads |-> reads]
    ELSE UnpackFaces_clamped(buf, n - 1, offset + PERSON_SENSOR_FACE_BYTE_COUNT,
                     Append(faces, PersonSensorFace(buf, offset)),
                     reads \cup (offset .. offset + PERSON_SENSOR_FACE_BYTE_COUNT - 1))

RECURSIVE UnpackFaces(_, _, _, _, _)
UnpackFaces(buf, n, offset, faces, reads) ==
    IF n = 0
    THEN [ok |-> TRUE, faces |-> faces, offset |-> offset, reads |-> reads]
    ELSE IF ~unpack_from_fits(buf, offset, PERSON_SENSOR_FACE_BYTE_COUNT)
    THEN [ok |-> FALSE, faces |-> faces, offset |-> offset, reads |-> reads]
    ELSE UnpackFaces(buf, n - 1, offset + PERSON_SENSOR_FACE_BYTE_COUNT,
                     Append(faces, PersonSensorFace(buf, offset)),
                     reads \cup (offset .. offset + PERSON_SENSOR_FACE_BYTE_COUNT - 1))

\* offset of the face-count byte
CountOffset == PERSON_SENSOR_I2C_HEADER_BYTE_COUNT

\* num_faces = int(struct.unpack_from("B", buffer, offset)[0])
NumFaces(buf) == UnpackB(ByteAt(buf, CountOffset))

\* the unpacking part of get_faces, from the count byte to the checksum
Decode(buf) ==
    LET r == UnpackFaces(buf, NumFaces(buf), CountOffset + 1, << >>, {CountOffset})
    IN  IF r.ok
        THEN [ok |-> TRUE, faces |-> r.faces,
              checksum |-> << UnpackH(buf, r.offset) >>,
              checksumOffset |-> r.offset,
              unpacked |-> Len(r.faces),
              reads |-> r.reads \cup {r.offset, r.offset + 1}]
        ELSE [ok |-> FALSE, faces |-> r.faces,
              checksum |-> << >>,
              checksumOffset |-> -1,
              unpacked |-> Len(r.faces),
              reads |-> r.reads]

\* --------------------------------------------------- what the device sends
Counts == {0, 1, 2, 3, 4, 5, 255}
FacePatterns ==
    { << 200, 10, 20, 30, 40, 90, 255, 1 >>,
      << 255, 0, 129, 127, 254, 3, 128, 0 >> }
Checksums == { << 0, 0 >>, << 52, 18 >> }
Header == << 0, 0, 35, 0 >>

Frame(c, f, ck) ==
    Header \o << c >> \o f[1] \o f[2] \o f[3] \o f[4] \o ck \o << 0 >>

ZeroBuffer == [i \in 1 .. PERSON_SENSOR_RESULT_BYTE_COUNT |-> 0]

\* ------------------------------------------------------------------ state
VARIABLES
    auto_delay,     \* self.auto_delay
    last_read,      \* self.last_read
    buffer,         \* self.buffer (<< >> is None)
    last_checksum,  \* self.last_checksum (<< >>: the attribute is not set)
    pc,             \* position inside get_faces, "idle" between calls
    now,            \* local of get_faces
    delay,          \* local of get_faces
    result,         \* what the last get_faces call returned or raised
    ticks,          \* what time.ticks_ms() returns now
    slept,          \* ms passed to time.sleep by the current call, -1: none
    calls,          \* get_faces calls started
    waited,         \* time has passed since the last call
    sinceInit,      \* ms since construction (saturating at Cap)
    sinceRead,      \* ms since the last bus read began (saturating), -1: none
    callGap,        \* sinceRead when the current call started
    readGap,        \* sinceRead when the last bus read began
    readTicks,      \* ticks_ms value when the last bus read began, -1: none
    prevFailed,     \* the call before the current one raised while unpacking
    stampedAtRead,  \* last_read when the last bus read began
    observed        \* what the unpacking of the last call touched

vars == << auto_delay, last_read, buffer, last_checksum, pc, now, delay,
           result, ticks, slept, calls, waited, sinceInit, sinceRead,
           callGap, readGap, readTicks, prevFailed, stampedAtRead, observed >>

NoResult == [kind |-> "none", faces |-> << >>, error |-> ""]
NoObserved == [unpacked |-> 0, reads |-> {}, checksumOffset |-> -1]

InitTicks == {0, TICKS_PERIOD - 30}
Gaps == {0, 50, 200, MaxGap}

SatAdd(x, d) == IF x = -1 THEN -1 ELSE Min(x + d, Cap)

\* PersonSensor.__init__
Init ==
    /\ auto_delay \in BOOLEAN
    /\ ticks \in InitTicks
    /\ last_read = ticks
    /\ buffer = << >>
    /\ last_checksum = << >>
    /\ pc = "idle"
    /\ now = 0
    /\ delay = 0
    /\ result = NoResult
    /\ slept = -1
    /\ calls = 0
    /\ waited = FALSE
    /\ sinceInit = 0
    /\ sinceRead = -1
    /\ callGap = -1
    /\ readGap = -1
    /\ readTicks = -1
    /\ prevFailed = FALSE
    /\ stampedAtRead = -1
    /\ observed = NoObserved

\* the clock advances by d ms
Advance(d) ==
    /\ ticks' = (ticks + (d % TICKS_PERIOD)) % TICKS_PERIOD
    /\ sinceInit' = SatAdd(sinceInit, d)
    /\ sinceRead' = SatAdd(sinceRead, d)

\* time passes between two calls
Elapse ==
    /\ pc = "idle"
    /\ ~waited
    /\ calls < MaxCalls
    /\ \E d \in Gaps : Advance(d)
    /\ waited' = TRUE
    /\ UNCHANGED << auto_delay, last_read, buffer, last_checksum, pc, now,
                    delay, result, slept, calls, callGap, readGap, readTicks,
                    prevFailed, stampedAtRead, observed >>

\* what every start of get_faces does to the observers
BeginCall ==
    /\ calls' = calls + 1
    /\ waited' = FALSE
    /\ callGap' = sinceRead
    /\ prevFailed' = (result.kind = "error")
    /\ result' = NoResult
    /\ observed' = NoObserved
    /\ slept' = -1
    /\ buffer' = ZeroBuffer

\* get_faces up to the test of delta: the rate limiter is applied whatever
\* auto_delay says
GetFacesBegin_always ==
    /\ pc = "idle"
    /\ calls < MaxCalls
    /\ BeginCall
    /\ now' = ticks
    /\ delay' = PERSON_SENSOR_DELAY - (ticks - last_read)
    /\ pc' = IF ticks - last_read < PERSON_SENSOR_DELAY
             THEN "sleep" ELSE "stamp"
    /\ UNCHANGED << auto_delay, last_read, last_checksum, ticks, sinceInit,
                    sinceRead, readGap, readTicks, stampedAtRead >>

\* get_faces up to the test of delta
GetFacesBegin ==
    /\ pc = "idle"
    /\ calls < MaxCalls
    /\ BeginCall
    /\ IF auto_delay
       THEN LET delta == ticks - last_read
            IN  /\ now' = ticks
                /\ delay' = PERSON_SENSOR_DELAY - delta
                /\ pc' = IF delta < PERSON_SENSOR_DELAY THEN "sleep" ELSE "stamp"
       ELSE /\ pc' = "read"
            /\ UNCHANGED << now, delay >>
    /\ UNCHANGED << auto_delay, last_read, last_checksum, ticks, sinceInit,
                    sinceRead, readGap, readTicks, stampedAtRead >>

\* time.sleep(delay / 1000)
GetFacesSleep ==
    /\ pc = "sleep"
    /\ slept' = delay
    /\ Advance(delay)
    /\ pc' = "stamp"
    /\ UNCHANGED << auto_delay, last_read, buffer, last_checksum, now, delay,
                    result, calls, waited, callGap, readGap, readTicks,
                    prevFailed, stampedAtRead, observed >>

\* self.last_read = now + delay
GetFacesStamp ==
    /\ pc = "stamp"
    /\ last_read' = now + delay
    /\ pc' = "read"
    /\ UNCHANGED << auto_delay, buffer, last_checksum, now, delay, result,
                    ticks, slept, calls, waited, sinceInit, sinceRead,
                    callGap, readGap, readTicks, prevFailed, stampedAtRead,
                    observed >>

\* self.i2c.readfrom_into(self.address, self.buffer)
GetFacesRead ==
    /\ pc = "read"
    /\ \E c \in Counts, f \in [1 .. PERSON_SENSOR_FACE_MAX -> FacePatterns],
          ck \in Checksums :
          buffer' = Frame(c, f, ck)
    /\ readGap' = sinceRead
    /\ sinceRead' = 0
    /\ readTicks' = ticks
    /\ stampedAtRead' = last_read
    /\ pc' = "unpack"
    /\ UNCHANGED << auto_delay, last_read, last_checksum, now, delay, result,
                    ticks, slept, calls, waited, sinceInit, callGap,
                    prevFailed, observed >>

\* the unpacking of the buffer and the return
GetFacesUnpack ==
    /\ pc = "unpack"
    /\ LET d == Decode(buffer)
       IN  /\ observed' = [unpacked |-> d.unpacked, reads |-> d.reads,
                           checksumOffset |-> d.checksumOffset]
           /\ IF d.ok
              THEN /\ last_checksum' = d.checksum
                   /\ result' = [kind |-> "faces", faces |-> d.faces, error |-> ""]
              ELSE /\ UNCHANGED last_checksum
                   /\ result' = [kind |-> "error", faces |-> << >>,
                                 error |-> "ValueError"]
    /\ pc' = "idle"
    /\ UNCHANGED << auto_delay, last_read, buffer, now, delay, ticks, slept,
                    calls, waited, sinceInit, sinceRead, callGap, readGap,
                    readTicks, prevFailed, stampedAtRead >>

Next ==
    \/ Elapse
    \/ GetFacesBegin
    \/ GetFacesSleep
    \/ GetFacesStamp
    \/ GetFacesRead
    \/ GetFacesUnpack

Spec == Init /\ [][Next]_vars

\* ----------------------------------------------------------- properties
\* a call has completed and its outcome is in result
Returned == pc = "idle" /\ calls > 0

\* the wire layout: slot i (0-based) of the four fixed face slots
SlotOffset(i) ==
    PERSON_SENSOR_I2C_HEADER_BYTE_COUNT + 1 + i * PERSON_SENSOR_FACE_BYTE_COUNT

\* the wire layout: the checksum follows the four face slots
FixedChecksumOffset == SlotOffset(PERSON_SENSOR_FACE_MAX)

\* the face record the wire layout puts in slot i
SlotRecord(buf, i) ==
    LET b(k) == buf[SlotOffset(i) + k + 1]
    IN  [ box_confidence |-> b(0), box_left |-> b(1), box_top |-> b(2),
          box_right |-> b(3), box_bottom |-> b(4), id_confidence |-> b(5),
          id |-> IF b(6) >= 128 THEN b(6) - 256 ELSE b(6),
          is_facing |-> b(7) ]

ExpectedFaces(buf) == [i \in 1 .. buf[5] |-> SlotRecord(buf, i - 1)]

\* C1: with auto_delay, the bus reads of two successive get_faces calls
\* begin at least PERSON_SENSOR_DELAY ms apart.
C1_ReadsAtLeastDelayApart ==
    (auto_delay /\ readGap # -1) => readGap >= PERSON_SENSOR_DELAY

\* C2: for every face count 0..4 the retained checksum is the 16-bit field
\* at the fixed offset after the four face slots, and the decode reads no
\* byte of an unpopulated face slot.
C2_ChecksumAtFixedOffset ==
    (Returned /\ result.kind = "faces") =>
        /\ observed.checksumOffset = FixedChecksumOffset
        /\ last_checksum = << UnpackH(buffer, FixedChecksumOffset) >>
        /\ observed.reads \cap
             (SlotOffset(Len(result.faces)) .. FixedChecksumOffset - 1) = {}

C4_FacesMatchSlots ==
    (Returned /\ NumFaces(buffer) <= PERSON_SENSOR_FACE_MAX) =>
        /\ result.kind = "faces"
        /\ Len(result.faces) = NumFaces(buffer)
        /\ result.faces = ExpectedFaces(buffer)
        /\ \A i \in 1 .. Len(result.faces) :
              /\ result.faces[i].id \in -128 .. 127
              /\ result.faces[i].box_confidence \in 0 .. 255
              /\ result.faces[i].is_facing \in 0 .. 255

C4_Witness ==
    /\ Returned
    /\ result.kind = "faces"
    /\ Len(result.faces) = 2
    /\ result.faces[1].id = -1
    /\ result.faces[2].id = -128
    /\ SlotRecord(buffer, 2) # SlotRecord(buffer, 3)

\* C5: with auto_delay, a call that failed in decoding has already advanced
\* the poll timestamp, and the bus read of the next call begins at least
\* PERSON_SENSOR_DELAY ms after the bus read of the failed call.
C5_NoHotLoopAfterFailure ==
    /\ (auto_delay /\ Returned /\ result.kind = "error") =>
           last_read = stampedAtRead
    /\ (auto_delay /\ prevFailed /\ pc \in {"unpack", "idle"}) =>
           readGap >= PERSON_SENSOR_DELAY

\* C6: the duration passed to sleep is never negative and at most
\* PERSON_SENSOR_DELAY ms, also around the wrap of the tick counter.
C6_SleepAtMostDelay ==
    slept # -1 => (0 <= slept /\ slept <= PERSON_SENSOR_DELAY)

\* C7: with auto_delay = false no get_faces call ever sleeps.
C7_NoSleepWithoutAutoDelay ==
    ~auto_delay => (slept = -1 /\ pc # "sleep")

C7_Witness ==
    /\ ~auto_delay
    /\ Returned
    /\ calls = 2
    /\ callGap = 0
    /\ readGap = 0

\* C8: after every get_faces call last_read is the monotonic time at which
\* the call's bus read began, and it is set before the buffer is decoded.
C8_LastReadIsReadStart ==
    (pc \in {"unpack", "idle"} /\ calls > 0) => last_read = readTicks

\* C9: with auto_delay, a call that starts PERSON_SENSOR_DELAY ms or more
\* after the previous call's bus read began does not sleep.
C9_NoSleepWhenDelayElapsed ==
    (auto_delay /\ callGap >= PERSON_SENSOR_DELAY) =>
        (slept = -1 /\ pc # "sleep")

\* C10: with auto_delay, the bus read of the first get_faces call begins at
\* least PERSON_SENSOR_DELAY ms after construction; a first call made
\* d < PERSON_SENSOR_DELAY ms after construction sleeps
\* PERSON_SENSOR_DELAY - d ms.
C10_ConstructionCountsAsRead ==
    (auto_delay /\ calls = 1) =>
        /\ pc = "unpack" => sinceInit >= PERSON_SENSOR_DELAY
        /\ (pc = "sleep" /\ sinceInit < PERSON_SENSOR_DELAY) =>
               delay = PERSON_SENSOR_DELAY - sinceInit
        /\ (pc = "stamp" /\ slept = -1) => sinceInit >= PERSON_SENSOR_DELAY

====
